---------------------------- MODULE Spec2Model ----------------------------
(***************************************************************************)
(* Model of the ai-test-agent repository: the Flask handlers of app.py     *)
(* (index, download_pdf) with their two process-wide globals, and the      *)
(* pipeline of test_runner.py (extract_llm_output, clean_llm_code,         *)
(* run_test_generation with its temporary directory and summary filter).   *)
(*                                                                         *)
(* Python text is a sequence of one-character strings, so that substring   *)
(* tests, regular-expression substitution, strip() and splitlines() are    *)
(* computed character by character.  A parsed JSON value is a tagged       *)
(* record: [t |-> "dict", d |-> f], [t |-> "list", l |-> seq],             *)
(* [t |-> "str", s |-> chars], [t |-> "int", n |-> i], [t |-> "null"].     *)
(***************************************************************************)
EXTENDS Integers, Sequences, FiniteSets, TLC

VARIABLES
    \* ---- app.py: process-wide state
    last_test_result,   \* app.py:16  dict, {} until a submission stores one
    last_user_code,     \* app.py:17  str, "" until a submission stores one
    reports,            \* files of REPORTS_DIR: timestamp |-> PDF content
    now,                \* wall clock in seconds (datetime.datetime.now())
    \* ---- app.py: index(), one slot per handler thread
    pc,                 \* position of the handler
    form,               \* request.form["code"]
    arg,                \* the argument index() passed to run_test_generation
    result,             \* local variable result of index()
    resp,               \* the response the handler returned
    overlap,            \* history: another POST was in flight during this one
    snap,               \* history: last_test_result when the request arrived
    lastDone,           \* history: the POST whose response was returned last
    \* ---- app.py: download_pdf(), one slot per handler thread
    dpc,                \* position of the handler
    dts,                \* local variable timestamp
    dpdf,               \* what the canvas c has drawn so far
    dresp,              \* the response the handler returned
    dviewed,            \* history: response last returned when the PDF was asked
    \* ---- test_runner.py: one call of run_test_generation
    rpc,                \* position in run_test_generation
    response_json,      \* test_runner.py:83
    raw_llm_output,     \* test_runner.py:89
    cleaned_test_code_body, \* test_runner.py:92
    temp_dir,           \* the TemporaryDirectory of test_runner.py:98
    test_output,        \* test_runner.py:118
    summary,            \* test_runner.py:125
    outcome             \* how the last call ended: value returned or exception

appvars == <<last_test_result, last_user_code, reports, now, pc, form, arg,
             result, resp, overlap, snap, lastDone, dpc, dts, dpdf, dresp,
             dviewed>>
runvars == <<rpc, response_json, raw_llm_output, cleaned_test_code_body,
             temp_dir, test_output, summary, outcome>>
vars == <<appvars, runvars>>

----------------------------------------------------------------------------
(* Bounds of the model *)

\* number of tokens concatenated into an LLM answer given to clean_llm_code
MaxTokens == 4
\* number of tokens concatenated into a captured pytest output
MaxOutTokens == 3
\* length of the "choices" array of a response
MaxChoices == 2
\* last second of the wall clock
MaxTime == 1

----------------------------------------------------------------------------
(* Python text *)

Drop(s, n) == SubSeq(s, n + 1, Len(s))

IsPrefix(p, s) == Len(p) <= Len(s) /\ SubSeq(s, 1, Len(p)) = p

\* Python's  sub in s  for two str values
RECURSIVE StrIn(_, _)
StrIn(sub, s) ==
    IF IsPrefix(sub, s) THEN TRUE
    ELSE IF s = <<>> THEN FALSE
    ELSE StrIn(sub, Tail(s))

RECURSIVE Flatten(_)
Flatten(ss) == IF ss = <<>> THEN <<>> ELSE Head(ss) \o Flatten(Tail(ss))

\* all concatenations of at most n tokens of T
TokenTexts(T, n) == { Flatten(ts) : ts \in UNION { [1..k -> T] : k \in 0..n } }

\* the backtick character (the lexer of TLA+ admits none in a string literal)
Backtick == "BACKTICK"

Fence == <<Backtick, Backtick, Backtick>>
PythonTag == <<"p", "y", "t", "h", "o", "n">>

\* str.strip() with no argument removes leading and trailing whitespace
IsSpace(c) == c \in {" ", "\n", "\t", "\r", "\f"}

RECURSIVE LStrip(_)
LStrip(s) == IF s # <<>> /\ IsSpace(Head(s)) THEN LStrip(Tail(s)) ELSE s

RECURSIVE RStrip(_)
RStrip(s) ==
    IF s # <<>> /\ IsSpace(s[Len(s)]) THEN RStrip(SubSeq(s, 1, Len(s) - 1))
    ELSE s

Strip(s) == RStrip(LStrip(s))

\* re.sub(r"```(?:python)?", "", text): leftmost non-overlapping matches,
\* the optional group is greedy
RECURSIVE SubFencePython(_)
SubFencePython(text) ==
    IF text = <<>> THEN <<>>
    ELSE IF IsPrefix(Fence, text)
         THEN IF IsPrefix(PythonTag, Drop(text, 3))
              THEN SubFencePython(Drop(text, 9))
              ELSE SubFencePython(Drop(text, 3))
         ELSE <<Head(text)>> \o SubFencePython(Tail(text))

\* re.sub(r"```", "", text)
RECURSIVE SubFence(_)
SubFence(text) ==
    IF text = <<>> THEN <<>>
    ELSE IF IsPrefix(Fence, text) THEN SubFence(Drop(text, 3))
         ELSE <<Head(text)>> \o SubFence(Tail(text))

clean_llm_code(text) == Strip(SubFence(SubFencePython(text)))

\* str.splitlines(): the line boundaries that can occur in the model's
\* alphabet are "\n" and "\f"; a trailing boundary adds no empty line
IsLineBreak(c) == c \in {"\n", "\f"}

RECURSIVE SplitFrom(_, _)
SplitFrom(s, cur) ==
    IF s = <<>> THEN (IF cur = <<>> THEN <<>> ELSE <<cur>>)
    ELSE IF IsLineBreak(Head(s)) THEN <<cur>> \o SplitFrom(Tail(s), <<>>)
         ELSE SplitFrom(Tail(s), Append(cur, Head(s)))

splitlines(s) == SplitFrom(s, <<>>)

\* "\n".join(lines)
RECURSIVE JoinNL(_)
JoinNL(lines) ==
    IF lines = <<>> THEN <<>>
    ELSE IF Len(lines) = 1 THEN Head(lines)
         ELSE Head(lines) \o <<"\n">> \o JoinNL(Tail(lines))

Passed == <<"p", "a", "s", "s", "e", "d">>
Failed == <<"f", "a", "i", "l", "e", "d">>
Error == <<"e", "r", "r", "o", "r">>

\* a filter that ignores case
SummaryKeepsAnyCase(line) ==
    \/ StrIn(Passed, line) \/ StrIn(Failed, line) \/ StrIn(Error, line)
    \/ StrIn(<<"P", "A", "S", "S", "E", "D">>, line)
    \/ StrIn(<<"F", "A", "I", "L", "E", "D">>, line)
    \/ StrIn(<<"E", "R", "R", "O", "R">>, line)

\* the condition of the list comprehension of test_runner.py:123
SummaryKeeps(line) ==
    StrIn(Passed, line) \/ StrIn(Failed, line) \/ StrIn(Error, line)

RECURSIVE summary_lines(_)
summary_lines(lines) ==
    IF lines = <<>> THEN <<>>
    ELSE IF SummaryKeeps(Head(lines))
         THEN <<Head(lines)>> \o summary_lines(Tail(lines))
         ELSE summary_lines(Tail(lines))

\* test_runner.py:121-125
SummaryOf(out) == JoinNL(summary_lines(splitlines(out)))

----------------------------------------------------------------------------
(* Parsed JSON values and the Python operations extract_llm_output applies *)

JNull == [t |-> "null"]
JStr(s) == [t |-> "str", s |-> s]
JInt(n) == [t |-> "int", n |-> n]
JList(l) == [t |-> "list", l |-> l]
JDict(d) == [t |-> "dict", d |-> d]

EmptyDict == [k \in {} |-> JNull]

\* the characters of the string literals the extractor looks up
KeyChars(k) ==
    CASE k = "message" -> <<"m", "e", "s", "s", "a", "g", "e">>
      [] k = "content" -> <<"c", "o", "n", "t", "e", "n", "t">>
      [] k = "text" -> <<"t", "e", "x", "t">>
      [] k = "choices" -> <<"c", "h", "o", "i", "c", "e", "s">>
      [] k = "error" -> Error

\* how a call ends: a returned value, or an exception with what it carries
Return(v) == [kind |-> "return", exc |-> "", msg |-> "", value |-> v]
Raise(e, m, v) == [kind |-> "raise", exc |-> e, msg |-> m, value |-> v]
Pending == [kind |-> "pending", exc |-> "", msg |-> "", value |-> JNull]

\* key in v  is defined for dict (a key), str (a substring), list (an
\* element); for None and int it raises TypeError
SupportsIn(v) == v.t \in {"dict", "str", "list"}

PyIn(key, v) ==
    CASE v.t = "dict" -> key \in DOMAIN v.d
      [] v.t = "str" -> StrIn(KeyChars(key), v.s)
      [] v.t = "list" -> \E i \in 1..Len(v.l) : v.l[i] = JStr(KeyChars(key))
      [] OTHER -> FALSE

\* v[key] with a str key, reached only after  key in v  was true: a dict
\* gives the value, a str or a list raises TypeError (indices must be integers)
PyGetKey(v, key) ==
    IF v.t = "dict" THEN Return(v.d[key]) ELSE Raise("TypeError", "", v)

\* v[0]
PyGetFirst(v) ==
    CASE v.t = "list" ->
            IF Len(v.l) > 0 THEN Return(v.l[1]) ELSE Raise("IndexError", "", v)
      [] v.t = "str" ->
            IF Len(v.s) > 0 THEN Return(JStr(<<v.s[1]>>))
            ELSE Raise("IndexError", "", v)
      [] v.t = "dict" -> Raise("KeyError", "", v)
      [] OTHER -> Raise("TypeError", "", v)

\* test_runner.py:34-37, the elif and else of the choices branch
ChoiceText(choice, response) ==
    IF PyIn("text", choice) THEN PyGetKey(choice, "text")
    ELSE Raise("ValueError", "Unexpected response format in choices", response)

\* test_runner.py:32-37, with the short-circuit of  and
ChoiceOutput(choice, response) ==
    IF ~SupportsIn(choice) THEN Raise("TypeError", "", choice)
    ELSE IF ~PyIn("message", choice) THEN ChoiceText(choice, response)
    ELSE LET message == PyGetKey(choice, "message") IN
         IF message.kind = "raise" THEN message
         ELSE IF ~SupportsIn(message.value)
              THEN Raise("TypeError", "", message.value)
         ELSE IF PyIn("content", message.value)
              THEN PyGetKey(message.value, "content")
         ELSE ChoiceText(choice, response)

\* an extractor with no branch for the error field
extract_without_error_branch(response) ==
    IF "choices" \in DOMAIN response.d
    THEN LET choice == PyGetFirst(response.d["choices"]) IN
         IF choice.kind = "raise" THEN choice
         ELSE ChoiceOutput(choice.value, response)
    ELSE Raise("ValueError", "Invalid response", response)

\* test_runner.py:25-41
extract_llm_output(response) ==
    IF "choices" \in DOMAIN response.d
    THEN LET choice == PyGetFirst(response.d["choices"]) IN
         IF choice.kind = "raise" THEN choice
         ELSE ChoiceOutput(choice.value, response)
    ELSE IF "error" \in DOMAIN response.d
         THEN Raise("RuntimeError", "API error", response.d["error"])
         ELSE Raise("ValueError", "Invalid response", response)

----------------------------------------------------------------------------
(* The inputs the specifications draw from *)

\* pieces of an LLM answer: single backticks, fences, language tags, body
FenceTokens ==
    { <<Backtick>>, Fence, PythonTag, <<"j", "s">>, <<"\n">>, <<" ">>, <<"x">> }

Texts == TokenTexts(FenceTokens, MaxTokens)

\* pieces of a pytest output: the three keywords, their upper-case forms,
\* fragments that join into a keyword, separators and line boundaries
OutTokens ==
    { Passed, Failed, Error, <<"E", "R", "R", "O", "R">>,
      <<"P", "A", "S", "S", "E", "D">>, <<"p", "a", "s", "s">>, <<"e", "d">>,
      <<" ">>, <<"1">>, <<"\n">>, <<"\f">> }

Outputs == TokenTexts(OutTokens, MaxOutTokens)

Contents == { JStr(<<"x">>), JStr(Fence \o PythonTag \o <<"\n", "x">>), JNull }

Messages ==
    { JDict([content |-> c]) : c \in Contents }
    \cup { JDict([role |-> JStr(<<"a">>)]), JDict(EmptyDict), JNull, JInt(0),
           JStr(KeyChars("content")), JStr(<<"x">>),
           JList(<<JStr(KeyChars("content"))>>), JList(<<>>) }

TextFields == { JStr(<<"y">>) }

\* shapes of choices[0]
FirstChoices ==
    { JDict([message |-> m]) : m \in Messages }
    \cup { JDict([message |-> m, text |-> x]) : m \in Messages, x \in TextFields }
    \cup { JDict([text |-> x]) : x \in TextFields }
    \cup { JDict([index |-> JInt(0)]), JDict(EmptyDict), JNull, JInt(0),
           JStr(KeyChars("text")), JStr(KeyChars("message")), JStr(<<"x">>),
           JList(<<JStr(KeyChars("message"))>>),
           JList(<<JStr(KeyChars("text"))>>), JList(<<>>) }

OtherChoices == { JDict([text |-> JStr(<<"z">>)]), JNull }

ChoiceLists ==
    { <<>> } \cup
    UNION { { <<c>> \o rest : c \in FirstChoices, rest \in [1..k -> OtherChoices] }
            : k \in 0..(MaxChoices - 1) }

ErrorPayloads ==
    { JStr(<<"b", "a", "d">>), JDict([message |-> JStr(<<"b", "a", "d">>)]) }

Responses ==
    { JDict([choices |-> JList(l)]) : l \in ChoiceLists }
    \cup { JDict([choices |-> JList(l), error |-> e]) :
             l \in ChoiceLists, e \in ErrorPayloads }
    \cup { JDict([error |-> e]) : e \in ErrorPayloads }
    \cup { JDict([error |-> e, id |-> JStr(<<"i">>)]) : e \in ErrorPayloads }
    \cup { JDict([id |-> JStr(<<"i">>)]), JDict(EmptyDict),
           JDict([choices |-> JNull]) }

----------------------------------------------------------------------------
(* test_runner.py: run_test_generation, one call *)

\* the sample function a call is given (test_runner.py:137-145)
UserCode == <<"d", "e", "f", " ", "i", "s", "_", "p", "r", "i", "m", "e">>

\* the line test_runner.py:95 puts before the cleaned answer
ImportLine == <<"from user_code import is_prime", "\n", "\n">>

full_test_code == ImportLine \o cleaned_test_code_body

EmptyFiles == [n \in {} |-> <<>>]

NoTempDir == [exists |-> FALSE, files |-> EmptyFiles]

\* what a file write leaves behind: the whole text, or nothing of it when the
\* write failed after the file was opened
WriteFile(td, name, text) == [td EXCEPT !.files = (name :> text) @@ td.files]

\* what pytest may leave in its working directory
PytestLeftovers == { "__pycache__", ".pytest_cache" }

\* TemporaryDirectory.__exit__ at the end of the with block of
\* test_runner.py:98, reached on normal exit and when an exception unwinds
\* through the block: the directory and all it holds are removed
LeaveOnException(td, raised) == IF raised THEN td ELSE NoTempDir

TemporaryDirectoryExit(td, raised) == NoTempDir

\* LLM replies the whole call is run on
RunResponses ==
    { JDict([choices |-> JList(<<JDict([message |-> JDict([content |-> c])])>>)]) :
        c \in Contents }
    \cup { JDict([choices |-> JList(<<>>)]),
           JDict([error |-> JStr(<<"b", "a", "d">>)]) }

\* pytest outputs the whole call is run on
RunOutputs ==
    TokenTexts({ <<"1", " ">> \o Passed, <<"1", " ">> \o Failed,
                 <<"\n">>, <<"o", "k">> }, 2)

RunIdle ==
    /\ rpc = "idle"
    /\ response_json = JNull
    /\ raw_llm_output = JNull
    /\ cleaned_test_code_body = <<>>
    /\ temp_dir = NoTempDir
    /\ test_output = <<>>
    /\ summary = <<>>
    /\ outcome = Pending

\* test_runner.py:81-83: the call to the completion API and response.json()
RequestStep ==
    /\ rpc = "request"
    /\ \/ \E r \in RunResponses :
            /\ response_json' = r
            /\ rpc' = "extract"
            /\ UNCHANGED outcome
       \/ /\ outcome' = Raise("RequestException", "requests.post", JNull)
          /\ rpc' = "raised"
          /\ UNCHANGED response_json
    /\ UNCHANGED <<raw_llm_output, cleaned_test_code_body, temp_dir,
                   test_output, summary>>
    /\ UNCHANGED appvars

\* test_runner.py:89
ExtractStep ==
    /\ rpc = "extract"
    /\ outcome' = extract_llm_output(response_json)
    /\ IF outcome'.kind = "return"
       THEN raw_llm_output' = outcome'.value /\ rpc' = "clean"
       ELSE UNCHANGED raw_llm_output /\ rpc' = "raised"
    /\ UNCHANGED <<response_json, cleaned_test_code_body, temp_dir,
                   test_output, summary>>
    /\ UNCHANGED appvars

\* test_runner.py:92: re.sub raises TypeError on a value that is no str
CleanStep ==
    /\ rpc = "clean"
    /\ IF raw_llm_output.t = "str"
       THEN /\ cleaned_test_code_body' = clean_llm_code(raw_llm_output.s)
            /\ rpc' = "mkdtemp"
            /\ UNCHANGED outcome
       ELSE /\ outcome' = Raise("TypeError", "re.sub", raw_llm_output)
            /\ rpc' = "raised"
            /\ UNCHANGED cleaned_test_code_body
    /\ UNCHANGED <<response_json, raw_llm_output, temp_dir, test_output,
                   summary>>
    /\ UNCHANGED appvars

\* test_runner.py:98: the directory is created, or mkdtemp raises
MkdtempStep ==
    /\ rpc = "mkdtemp"
    /\ \/ /\ temp_dir' = [exists |-> TRUE, files |-> EmptyFiles]
          /\ rpc' = "write_code"
          /\ UNCHANGED outcome
       \/ /\ outcome' = Raise("OSError", "mkdtemp", JNull)
          /\ rpc' = "raised"
          /\ UNCHANGED temp_dir
    /\ UNCHANGED <<response_json, raw_llm_output, cleaned_test_code_body,
                   test_output, summary>>
    /\ UNCHANGED appvars

\* test_runner.py:103-104
WriteCodeStep ==
    /\ rpc = "write_code"
    /\ \/ /\ temp_dir' = WriteFile(temp_dir, "user_code.py", UserCode)
          /\ rpc' = "write_test"
          /\ UNCHANGED outcome
       \/ \E left \in { temp_dir, WriteFile(temp_dir, "user_code.py", <<>>) } :
            /\ temp_dir' = TemporaryDirectoryExit(left, TRUE)
            /\ outcome' = Raise("OSError", "user_code.py", JNull)
            /\ rpc' = "raised"
    /\ UNCHANGED <<response_json, raw_llm_output, cleaned_test_code_body,
                   test_output, summary>>
    /\ UNCHANGED appvars

\* test_runner.py:107-108
WriteTestStep ==
    /\ rpc = "write_test"
    /\ \/ /\ temp_dir' = WriteFile(temp_dir, "test_code.py", full_test_code)
          /\ rpc' = "pytest"
          /\ UNCHANGED outcome
       \/ \E left \in { temp_dir, WriteFile(temp_dir, "test_code.py", <<>>) } :
            /\ temp_dir' = TemporaryDirectoryExit(left, TRUE)
            /\ outcome' = Raise("OSError", "test_code.py", JNull)
            /\ rpc' = "raised"
    /\ UNCHANGED <<response_json, raw_llm_output, cleaned_test_code_body,
                   test_output, summary>>
    /\ UNCHANGED appvars

\* test_runner.py:111-118: pytest runs in temp_dir and its standard output is
\* captured whatever its exit code, or subprocess.run itself raises
PytestStep ==
    /\ rpc = "pytest"
    /\ \E made \in SUBSET PytestLeftovers :
         LET after == [temp_dir EXCEPT !.files =
                          [n \in made |-> <<>>] @@ temp_dir.files] IN
         \/ \E out \in RunOutputs :
              /\ test_output' = out
              /\ temp_dir' = after
              /\ rpc' = "summary"
              /\ UNCHANGED outcome
         \/ /\ temp_dir' = TemporaryDirectoryExit(after, TRUE)
            /\ outcome' = Raise("OSError", "subprocess.run", JNull)
            /\ rpc' = "raised"
            /\ UNCHANGED test_output
    /\ UNCHANGED <<response_json, raw_llm_output, cleaned_test_code_body,
                   summary>>
    /\ UNCHANGED appvars

\* test_runner.py:121-125
SummaryStep ==
    /\ rpc = "summary"
    /\ summary' = SummaryOf(test_output)
    /\ rpc' = "exit"
    /\ UNCHANGED <<response_json, raw_llm_output, cleaned_test_code_body,
                   temp_dir, test_output, outcome>>
    /\ UNCHANGED appvars

\* the end of the with block, then test_runner.py:128-132
ReturnStep ==
    /\ rpc = "exit"
    /\ temp_dir' = TemporaryDirectoryExit(temp_dir, FALSE)
    /\ outcome' = Return([generated_tests |-> full_test_code,
                          test_output |-> test_output,
                          summary |-> summary])
    /\ rpc' = "returned"
    /\ UNCHANGED <<response_json, raw_llm_output, cleaned_test_code_body,
                   test_output, summary>>
    /\ UNCHANGED appvars

----------------------------------------------------------------------------
(* app.py: the two globals, index() and download_pdf() *)

\* the requests to "/" and to "/download/pdf", each served by its own thread
Posts == {1, 2}
Downloads == {1, 2}

\* the source text the form of request r carries: submission A, submission B
CodeOf(r) == IF r = 1 THEN <<"A">> ELSE <<"B">>

\* app.py:16, the empty dict
EmptyResult == [k \in {} |-> <<>>]

\* the dict run_test_generation returns (test_runner.py:128-132) for the
\* source text it was called with, in the call made by request r: the LLM
\* answers every call anew
Gen(code, r) ==
    [generated_tests |-> <<"tests of">> \o code \o <<"call", ToString(r)>>,
     test_output |-> <<"output of">> \o code \o <<"call", ToString(r)>>,
     summary |-> <<"summary of">> \o code \o <<"call", ToString(r)>>]

\* the source text a result record was generated from
GenFrom(res) == <<res.generated_tests[2]>>

\* app.py:42, the truth value of the dict
NeverEmpty(res) == TRUE

HasResult(res) == DOMAIN res # {}

NoResp == [status |-> 0, user_code |-> <<>>, result |-> EmptyResult]

\* render_template("index.html") with no arguments (app.py:36)
FormPage == [status |-> 200, user_code |-> <<>>, result |-> EmptyResult]

ServerError == [status |-> 500, user_code |-> <<>>, result |-> EmptyResult]

NoFile == <<>>

NoDownload == [status |-> 0, text |-> "", file |-> NoFile]

NoView == [resp |-> NoResp, form |-> <<>>, alone |-> FALSE]

\* add_section(title, content), app.py:54-66: the title, then the lines of
\* the content drawn one after the other
Section(title, content) == [title |-> title, content |-> content]

\* the four sections of app.py:92-95 for a source text and a result record
PdfOf(code, res) ==
    << Section("User-Submitted Code:", code),
       Section("Generated Test Cases:", res.generated_tests),
       Section("Test Execution Output:", res.test_output),
       Section("Summary:", res.summary) >>

InFlight(r) == pc[r] \notin {"idle", "done"}

Quiet == \A r \in Posts : ~InFlight(r)

AppInit ==
    /\ last_test_result = EmptyResult
    /\ last_user_code = <<>>
    /\ reports = [t \in {} |-> NoFile]
    /\ now = 0
    /\ pc = [r \in Posts |-> "idle"]
    /\ form = [r \in Posts |-> <<>>]
    /\ arg = [r \in Posts |-> <<>>]
    /\ result = [r \in Posts |-> EmptyResult]
    /\ resp = [r \in Posts |-> NoResp]
    /\ overlap = [r \in Posts |-> FALSE]
    /\ snap = [r \in Posts |-> EmptyResult]
    /\ lastDone = 0
    /\ dpc = [d \in Downloads |-> "idle"]
    /\ dts = [d \in Downloads |-> 0]
    /\ dpdf = [d \in Downloads |-> NoFile]
    /\ dresp = [d \in Downloads |-> NoDownload]
    /\ dviewed = [d \in Downloads |-> NoView]

dlvars == <<dpc, dts, dpdf, dresp, dviewed>>

\* datetime.datetime.now() advances
Tick ==
    /\ now < MaxTime
    /\ now' = now + 1
    /\ UNCHANGED <<last_test_result, last_user_code, reports, pc, form, arg,
                   result, resp, overlap, snap, lastDone, dlvars>>
    /\ UNCHANGED runvars

\* app.py:36: GET /
IndexGet(r) ==
    /\ pc[r] = "idle"
    /\ pc' = [pc EXCEPT ![r] = "done"]
    /\ form' = [form EXCEPT ![r] = <<>>]
    /\ arg' = [arg EXCEPT ![r] = <<>>]
    /\ result' = [result EXCEPT ![r] = EmptyResult]
    /\ resp' = [resp EXCEPT ![r] = FormPage]
    /\ UNCHANGED lastDone
    /\ UNCHANGED <<last_test_result, last_user_code, reports, now, overlap,
                   snap, dlvars>>
    /\ UNCHANGED runvars

\* the statement of app.py:24
KeepCode(old, new) == old

StoreCode(old, new) == new

\* app.py:23-24: POST / arrives with request.form["code"] = c
PostBegin(r, c) ==
    /\ pc[r] = "idle"
    /\ pc' = [pc EXCEPT ![r] = "p25"]
    /\ form' = [form EXCEPT ![r] = c]
    /\ last_user_code' = StoreCode(last_user_code, c)
    /\ arg' = [arg EXCEPT ![r] = <<>>]
    /\ result' = [result EXCEPT ![r] = EmptyResult]
    /\ resp' = [resp EXCEPT ![r] = NoResp]
    /\ overlap' = [x \in Posts |->
                     IF x = r THEN ~Quiet
                     ELSE IF InFlight(x) THEN TRUE ELSE overlap[x]]
    /\ snap' = [snap EXCEPT ![r] = last_test_result]
    /\ dviewed' = [d \in Downloads |->
                     IF dpc[d] \in {"idle", "done"} THEN dviewed[d] ELSE NoView]
    /\ UNCHANGED <<last_test_result, reports, now, lastDone, dpc, dts, dpdf,
                   dresp>>
    /\ UNCHANGED runvars

\* app.py:25: the argument of the call is read from the global
PostCall(r) ==
    /\ pc[r] = "p25"
    /\ arg' = [arg EXCEPT ![r] = last_user_code]
    /\ pc' = [pc EXCEPT ![r] = "p25run"]
    /\ UNCHANGED <<last_test_result, last_user_code, reports, now, form,
                   result, resp, overlap, snap, lastDone, dlvars>>
    /\ UNCHANGED runvars

\* the statement of app.py:26
KeepFirstResult(old, new) == IF HasResult(old) THEN old ELSE new

StoreResult(old, new) == new

\* app.py:25-26: run_test_generation returns and the result is stored
PostStore(r) ==
    /\ pc[r] = "p25run"
    /\ result' = [result EXCEPT ![r] = Gen(arg[r], r)]
    /\ last_test_result' = StoreResult(last_test_result, Gen(arg[r], r))
    /\ pc' = [pc EXCEPT ![r] = "p28"]
    /\ UNCHANGED <<last_user_code, reports, now, form, arg, resp, overlap,
                   snap, lastDone, dlvars>>
    /\ UNCHANGED runvars

\* what an exception of run_test_generation does to last_test_result: index()
\* has no handler, Flask answers 500 and line 26 is never reached
ClearOnError(old) == EmptyResult

ResultAfterRaise(old) == old

\* app.py:25: run_test_generation raises
PostRaise(r) ==
    /\ pc[r] = "p25run"
    /\ last_test_result' = ResultAfterRaise(last_test_result)
    /\ resp' = [resp EXCEPT ![r] = ServerError]
    /\ pc' = [pc EXCEPT ![r] = "done"]
    /\ lastDone' = r
    /\ UNCHANGED <<last_user_code, reports, now, form, arg, result, overlap,
                   snap, dlvars>>
    /\ UNCHANGED runvars

\* app.py:28-34: the page is rendered from the global and the local result
PostRender(r) ==
    /\ pc[r] = "p28"
    /\ resp' = [resp EXCEPT ![r] =
                  [status |-> 200, user_code |-> last_user_code,
                   result |-> result[r]]]
    /\ pc' = [pc EXCEPT ![r] = "done"]
    /\ lastDone' = r
    /\ UNCHANGED <<last_test_result, last_user_code, reports, now, form, arg,
                   result, overlap, snap, dlvars>>
    /\ UNCHANGED runvars

postvars == <<pc, form, arg, result, resp, overlap, snap, lastDone>>

\* what the user of the PDF endpoint last saw, when no POST is in flight
Viewed ==
    IF Quiet /\ lastDone # 0
    THEN [resp |-> resp[lastDone], form |-> form[lastDone],
          alone |-> ~overlap[lastDone]]
    ELSE NoView

\* app.py:40-43: GET /download/pdf arrives and the cache is tested
DlCheck(d) ==
    /\ dpc[d] = "idle"
    /\ dpdf' = [dpdf EXCEPT ![d] = NoFile]
    /\ dts' = [dts EXCEPT ![d] = 0]
    /\ IF HasResult(last_test_result)
       THEN /\ dpc' = [dpc EXCEPT ![d] = "d45"]
            /\ dresp' = [dresp EXCEPT ![d] = NoDownload]
       ELSE /\ dpc' = [dpc EXCEPT ![d] = "done"]
            /\ dresp' = [dresp EXCEPT ![d] =
                           [status |-> 400,
                            text |-> "No test results found. Run tests first.",
                            file |-> NoFile]]
    /\ dviewed' = [dviewed EXCEPT ![d] = Viewed]
    /\ UNCHANGED <<last_test_result, last_user_code, reports, now, postvars>>
    /\ UNCHANGED runvars

\* the name of the report file, app.py:45-46: one per second of the clock
Timestamp(t) == t

\* app.py:45-49 and 84-89: the file name is fixed from the clock and the
\* header is drawn; the canvas writes no file before save().  The time the
\* header prints is left out of the drawn content.
DlStamp(d) ==
    /\ dpc[d] = "d45"
    /\ dts' = [dts EXCEPT ![d] = Timestamp(now)]
    /\ dpdf' = [dpdf EXCEPT ![d] =
                  << Section("AI-Powered Unit Test Report", <<"Generated:">>) >>]
    /\ dpc' = [dpc EXCEPT ![d] = "d92"]
    /\ UNCHANGED <<last_test_result, last_user_code, reports, now, postvars,
                   dresp, dviewed>>
    /\ UNCHANGED runvars

\* one of app.py:92-95: a global is read and its section drawn
DlDraw(d, at, title, content, next) ==
    /\ dpc[d] = at
    /\ dpdf' = [dpdf EXCEPT ![d] = Append(@, Section(title, content))]
    /\ dpc' = [dpc EXCEPT ![d] = next]
    /\ UNCHANGED <<last_test_result, last_user_code, reports, now, postvars,
                   dts, dresp, dviewed>>
    /\ UNCHANGED runvars

\* app.py:92
DlCode(d) == DlDraw(d, "d92", "User-Submitted Code:", last_user_code, "d93")

\* a key of the cached dict; a missing key raises KeyError
Lookup(res, key) == IF key \in DOMAIN res THEN res[key] ELSE <<"KeyError">>

\* app.py:93
DlTests(d) ==
    DlDraw(d, "d93", "Generated Test Cases:",
           Lookup(last_test_result, "generated_tests"), "d94")

\* app.py:94
DlOutput(d) ==
    DlDraw(d, "d94", "Test Execution Output:",
           Lookup(last_test_result, "test_output"), "d95")

\* app.py:95
DlSummary(d) ==
    DlDraw(d, "d95", "Summary:", Lookup(last_test_result, "summary"), "d98")

\* app.py:98: c.save() writes the document to pdf_path, replacing what is there
DlSave(d) ==
    /\ dpc[d] = "d98"
    /\ reports' = (dts[d] :> dpdf[d]) @@ reports
    /\ dpc' = [dpc EXCEPT ![d] = "d99"]
    /\ UNCHANGED <<last_test_result, last_user_code, now, postvars, dts, dpdf,
                   dresp, dviewed>>
    /\ UNCHANGED runvars

\* app.py:99: send_file streams what pdf_path holds now
DlSend(d) ==
    /\ dpc[d] = "d99"
    /\ dresp' = [dresp EXCEPT ![d] =
                   [status |-> 200, text |-> "", file |-> reports[dts[d]]]]
    /\ dpc' = [dpc EXCEPT ![d] = "done"]
    /\ UNCHANGED <<last_test_result, last_user_code, reports, now, postvars,
                   dts, dpdf, dviewed>>
    /\ UNCHANGED runvars

----------------------------------------------------------------------------
(* Specifications *)

Init == AppInit /\ RunIdle

Next ==
    \/ Tick
    \/ \E r \in Posts : IndexGet(r)
    \/ \E r \in Posts : PostBegin(r, CodeOf(r))
    \/ \E r \in Posts : PostCall(r)
    \/ \E r \in Posts : PostStore(r)
    \/ \E r \in Posts : PostRaise(r)
    \/ \E r \in Posts : PostRender(r)
    \/ \E d \in Downloads : DlCheck(d)
    \/ \E d \in Downloads : DlStamp(d)
    \/ \E d \in Downloads : DlCode(d)
    \/ \E d \in Downloads : DlTests(d)
    \/ \E d \in Downloads : DlOutput(d)
    \/ \E d \in Downloads : DlSummary(d)
    \/ \E d \in Downloads : DlSave(d)
    \/ \E d \in Downloads : DlSend(d)

\* the web application: handler threads interleave on the two globals
Spec == Init /\ [][Next]_vars


RunStart(at) ==
    /\ rpc = at
    /\ response_json = JNull
    /\ raw_llm_output = JNull
    /\ cleaned_test_code_body = <<>>
    /\ temp_dir = NoTempDir
    /\ test_output = <<>>
    /\ summary = <<>>
    /\ outcome = Pending

InitRun == AppInit /\ RunStart("request")

NextRun ==
    \/ RequestStep
    \/ ExtractStep
    \/ CleanStep
    \/ MkdtempStep
    \/ WriteCodeStep
    \/ WriteTestStep
    \/ PytestStep
    \/ SummaryStep
    \/ ReturnStep

\* one call of run_test_generation, from the request to its return or raise
SpecRun == InitRun /\ [][NextRun]_vars

InitExtract ==
    /\ AppInit
    /\ rpc = "extract"
    /\ response_json \in Responses
    /\ raw_llm_output = JNull
    /\ cleaned_test_code_body = <<>>
    /\ temp_dir = NoTempDir
    /\ test_output = <<>>
    /\ summary = <<>>
    /\ outcome = Pending

\* extract_llm_output applied to every response of Responses
SpecExtract == InitExtract /\ [][ExtractStep]_vars

InitClean ==
    /\ AppInit
    /\ rpc = "clean"
    /\ response_json = JNull
    /\ raw_llm_output \in { JStr(t) : t \in Texts } \cup { JNull }
    /\ cleaned_test_code_body = <<>>
    /\ temp_dir = NoTempDir
    /\ test_output = <<>>
    /\ summary = <<>>
    /\ outcome = Pending

\* clean_llm_code applied to every text of Texts
SpecClean == InitClean /\ [][CleanStep]_vars

InitSummary ==
    /\ AppInit
    /\ rpc = "summary"
    /\ response_json = JNull
    /\ raw_llm_output = JNull
    /\ cleaned_test_code_body = <<>>
    /\ temp_dir = NoTempDir
    /\ test_output \in Outputs
    /\ summary = <<>>
    /\ outcome = Pending

\* the summary filter applied to every output of Outputs
SpecSummary == InitSummary /\ [][SummaryStep]_vars

----------------------------------------------------------------------------
(* Claims about app.py, properties of Spec *)

Stored == DOMAIN last_test_result # {}

\* request r was a POST that ended, answered 200 or 500
PostOK(r) == pc[r] = "done" /\ resp[r].status = 200 /\ form[r] # <<>>
PostFailed(r) == pc[r] = "done" /\ resp[r].status = 500

\* download d has written its document
Saved(d) == dpc[d] = "d99" \/ (dpc[d] = "done" /\ dresp[d].status = 200)

\* the four sections download d drew after the header
Body(d) == Tail(dpdf[d])

\* the cached pair comes from two places: the result was generated from a
\* source text other than the cached one
Mixed == Stored /\ GenFrom(last_test_result) # last_user_code

NoResultMessage ==
    [status |-> 400, text |-> "No test results found. Run tests first.",
     file |-> NoFile]

\* C1: while no submission has stored a result, every PDF request that was
\* answered got the 400 with its plain-text message, no PDF request is past
\* the test of app.py:42, and the reports directory holds no file.
C1_NoResultNoPdf ==
    ~Stored =>
        /\ DOMAIN reports = {}
        /\ \A d \in Downloads :
             /\ dpc[d] \in {"idle", "done"}
             /\ dpc[d] = "done" => dresp[d] = NoResultMessage

\* C1 witness: nothing stored, a GET of the form page was served and both
\* PDF requests were answered 400
C1_Witness ==
    /\ ~Stored
    /\ \E r \in Posts : pc[r] = "done" /\ resp[r] = FormPage /\ form[r] = <<>>
    /\ \A d \in Downloads : dpc[d] = "done" /\ dresp[d].status = 400
    /\ DOMAIN reports = {}

\* submission a ended before submission b arrived, b was returned last and
\* no POST is in flight
Sequential(a, b) ==
    /\ a # b
    /\ Quiet
    /\ lastDone = b
    /\ pc[a] = "done" /\ form[a] # <<>> /\ ~overlap[a]
    /\ pc[b] = "done" /\ form[b] # <<>> /\ ~overlap[b]

\* the PDF requests made after b was returned, with no POST arriving since
AskedAfter(d, b) ==
    /\ dpc[d] \notin {"idle"}
    /\ dviewed[d].form = form[b]
    /\ dviewed[d].resp = resp[b]

C8_OnlyOverlapDeparts ==
    /\ \A r \in Posts :
         Quiet /\ lastDone = r /\ Mixed => overlap[r] \/ PostFailed(r)
    /\ \A d \in Downloads :
         Saved(d) /\ dviewed[d].resp.status = 200 /\ dviewed[d].alone =>
            Body(d) = PdfOf(dviewed[d].resp.user_code, dviewed[d].resp.result)

\* C8 witness: two overlapping POSTs were both answered 200, the response of
\* submission r was returned last, and a PDF asked for afterwards was sent
\* that draws the other submission x whole: x's code and x's result
C8_Witness ==
    \E d \in Downloads, r, x \in Posts :
        /\ r # x /\ Quiet /\ lastDone = r
        /\ PostOK(r) /\ PostOK(x) /\ overlap[r] /\ overlap[x]
        /\ dpc[d] = "done" /\ dresp[d].status = 200
        /\ dviewed[d].form = form[r] /\ dviewed[d].resp = resp[r]
        /\ result[x] = Gen(form[x], x)
        /\ Body(d) = PdfOf(form[x], result[x])

\* C8, second interleaving: two overlapping POSTs were both answered 200 and
\* the cache is left with the source text of one and the result of the other
C8_MixedPair ==
    \E x, y \in Posts :
        /\ x # y /\ Quiet /\ PostOK(x) /\ PostOK(y)
        /\ last_user_code = form[x]
        /\ last_test_result = result[y]
        /\ result[y] = Gen(form[y], y)

\* C9: each PDF request that has written its document has a file of its own:
\* as many files as such requests, no two under one name, and each file
\* still the document its request drew.
C9_OneFilePerRequest ==
    /\ Cardinality(DOMAIN reports) = Cardinality({ d \in Downloads : Saved(d) })
    /\ \A d, e \in Downloads : Saved(d) /\ Saved(e) /\ d # e => dts[d] # dts[e]
    /\ \A d \in Downloads : Saved(d) => reports[dts[d]] = dpdf[d]

\* two PDF requests drew different documents within one second and wrote
\* them under one name: one file is there, holding what the later save wrote
C9_Overwritten ==
    \E d, e \in Downloads :
        /\ d # e /\ dpc[d] = "done" /\ dpc[e] = "done"
        /\ dresp[d].status = 200 /\ dresp[e].status = 200
        /\ dts[d] = dts[e]
        /\ dpdf[d] # dpdf[e]
        /\ DOMAIN reports = {dts[e]}
        /\ reports[dts[e]] = dpdf[e]

\* C10: after a POST whose run_test_generation raised (and that overlapped no
\* other POST), last_test_result is what it was when the request arrived and
\* last_user_code is the text of that request; if nothing was stored before,
\* a PDF request made afterwards is answered 400.
C10_RaiseLeavesResult ==
    \A r \in Posts :
        Quiet /\ lastDone = r /\ PostFailed(r) /\ ~overlap[r] =>
            /\ last_test_result = snap[r]
            /\ last_user_code = form[r]
            /\ \A d \in Downloads :
                 (AskedAfter(d, r) /\ dpc[d] = "done" /\ DOMAIN snap[r] = {})
                    => dresp[d] = NoResultMessage

\* C10 witness: submission A was answered 200, then submission B raised: the
\* cache holds B's code with A's result
C10_Witness ==
    /\ Sequential(1, 2) /\ PostOK(1) /\ PostFailed(2)
    /\ last_user_code = form[2]
    /\ last_test_result = result[1]
    /\ result[1] = Gen(form[1], 1)

----------------------------------------------------------------------------
(* Claims about extract_llm_output, properties of SpecExtract *)

Extracted == rpc \in {"clean", "raised"}

HasChoicesArray ==
    /\ "choices" \in DOMAIN response_json.d
    /\ response_json.d["choices"].t = "list"

Choices == response_json.d["choices"].l

\* the first element of the array has the nested field message.content
FirstHasContent ==
    /\ Choices # <<>>
    /\ Choices[1].t = "dict"
    /\ "message" \in DOMAIN Choices[1].d
    /\ Choices[1].d["message"].t = "dict"
    /\ "content" \in DOMAIN Choices[1].d["message"].d

\* the first element of the array has the field text
FirstHasText ==
    /\ Choices # <<>>
    /\ Choices[1].t = "dict"
    /\ "text" \in DOMAIN Choices[1].d

FormattingError ==
    Raise("ValueError", "Unexpected response format in choices", response_json)

\* C3 as stated: for a response with a "choices" array the extractor returns
\* choices[0].message.content when that field exists, else choices[0].text
\* when that field exists, else raises the ValueError naming the structure;
\* nothing else happens.
C3_ThreeOutcomes ==
    Extracted /\ HasChoicesArray =>
        outcome = IF FirstHasContent
                  THEN Return(Choices[1].d["message"].d["content"])
                  ELSE IF FirstHasText THEN Return(Choices[1].d["text"])
                  ELSE FormattingError

\* C3, the part the code keeps: when the first element is an object whose
\* message (if any) is an object too, the outcome is one of the three
C3_WellShapedFirst ==
    /\ Extracted /\ HasChoicesArray /\ Choices # <<>>
    /\ Choices[1].t = "dict"
    /\ "message" \in DOMAIN Choices[1].d => Choices[1].d["message"].t = "dict"
    => outcome = IF FirstHasContent
                 THEN Return(Choices[1].d["message"].d["content"])
                 ELSE IF FirstHasText THEN Return(Choices[1].d["text"])
                 ELSE FormattingError

\* the empty array was extracted: IndexError, not the formatting error
C3_EmptyArrayRaisesIndexError ==
    /\ Extracted /\ HasChoicesArray /\ Choices = <<>>
    /\ outcome.kind = "raise" /\ outcome.exc = "IndexError"

UpstreamError == Raise("RuntimeError", "API error", response_json.d["error"])

\* C4 as amended: for a response with a top-level "error" field and no
\* "choices" field the extractor raises the RuntimeError carrying the error
\* payload and returns no text.
C4_ErrorWithoutChoices ==
    /\ Extracted
    /\ "error" \in DOMAIN response_json.d
    /\ "choices" \notin DOMAIN response_json.d
    => /\ outcome = UpstreamError
       /\ rpc = "raised"
       /\ raw_llm_output = JNull

\* C4 as stated: the same for every response with a top-level "error" field
C4_AnyError ==
    /\ Extracted
    /\ "error" \in DOMAIN response_json.d
    => /\ outcome = UpstreamError
       /\ rpc = "raised"
       /\ raw_llm_output = JNull

\* C4 witness: a response with an error object and another field beside it
\* was extracted and the RuntimeError carries the object
C4_Witness ==
    /\ Extracted
    /\ DOMAIN response_json.d = {"error", "id"}
    /\ response_json.d["error"].t = "dict"
    /\ outcome.kind = "raise" /\ outcome.exc = "RuntimeError"
    /\ outcome.value = response_json.d["error"]

----------------------------------------------------------------------------
(* Claims about clean_llm_code, properties of SpecClean *)

Cleaned == rpc = "mkdtemp"

LanguageTags == { PythonTag, <<"j", "s">> }

\* the language tag that trails a fence: a tag that ends its line
TagsAt(rest) ==
    { tag \in LanguageTags :
        /\ IsPrefix(tag, rest)
        /\ Len(rest) = Len(tag) \/ IsSpace(rest[Len(tag) + 1]) }

\* every fence of the text is bare (ends the text or is followed by white
\* space) or is followed by a language tag that ends its line
RECURSIVE PlainFences(_)
PlainFences(text) ==
    IF text = <<>> THEN TRUE
    ELSE IF IsPrefix(Fence, text)
         THEN LET rest == Drop(text, 3) IN
              IF rest = <<>> THEN TRUE
              ELSE IF IsSpace(Head(rest)) THEN PlainFences(rest)
              ELSE /\ TagsAt(rest) # {}
                   /\ PlainFences(Drop(rest, Len(CHOOSE tag \in TagsAt(rest) : TRUE)))
         ELSE PlainFences(Tail(text))

\* the text without its fences and their tags, other characters in order
RECURSIVE WithoutFences(_)
WithoutFences(text) ==
    IF text = <<>> THEN <<>>
    ELSE IF IsPrefix(Fence, text)
         THEN LET rest == Drop(text, 3) IN
              IF TagsAt(rest) # {}
              THEN WithoutFences(Drop(rest, Len(CHOOSE tag \in TagsAt(rest) : TRUE)))
              ELSE WithoutFences(rest)
         ELSE <<Head(text)>> \o WithoutFences(Tail(text))

\* C5 as stated, on the texts whose fences are bare or tagged: the result is
\* the text without its fences and without their language tags, whatever
\* the tag, trimmed; it holds no triple backtick.
C5_AnyTagRemoved ==
    Cleaned /\ PlainFences(raw_llm_output.s) =>
        /\ cleaned_test_code_body = Strip(WithoutFences(raw_llm_output.s))
        /\ ~StrIn(Fence, cleaned_test_code_body)

\* C5, the part the code keeps: no result holds a triple backtick, and a
\* text whose fences are bare or tagged python loses fences and tags
C5_PythonTagRemoved ==
    Cleaned =>
        /\ ~StrIn(Fence, cleaned_test_code_body)
        /\ (PlainFences(raw_llm_output.s) /\ ~StrIn(<<"j", "s">>, raw_llm_output.s))
              => cleaned_test_code_body = Strip(WithoutFences(raw_llm_output.s))

\* a fenced block tagged js was cleaned and the tag is left in the result
C5_LeftoverTag ==
    /\ Cleaned
    /\ raw_llm_output = JStr(Fence \o <<"j", "s", "\n", "x">>)
    /\ cleaned_test_code_body = <<"j", "s", "\n", "x">>

----------------------------------------------------------------------------
(* Claims about the summary of run_test_generation, properties of
   SpecSummary *)

Summarised == rpc = "exit"

\* the line holds one of the three words, in lower case, somewhere
ClaimKeeps(line) ==
    \E word \in { Passed, Failed, Error } :
        \E i \in 1..Len(line) :
            /\ i + Len(word) - 1 <= Len(line)
            /\ SubSeq(line, i, i + Len(word) - 1) = word

KeptLines == SelectSeq(splitlines(test_output), ClaimKeeps)

\* C6: the summary is the lines of the output that hold "passed", "failed"
\* or "error" in lower case, in their order and unmodified, with one newline
\* between two of them and nothing else; it is empty when no line matches.
C6_SummaryIsMatchingLines ==
    Summarised =>
        /\ splitlines(summary) = KeptLines
        /\ \A i \in 1..Len(summary) : summary[i] # "\f"
        /\ Len(summary) = Len(Flatten(KeptLines))
                            + (IF KeptLines = <<>> THEN 0 ELSE Len(KeptLines) - 1)
        /\ KeptLines = <<>> => summary = <<>>

\* C6 witness: an output of two lines was summarised, one holding "passed"
\* and one holding only the upper-case "ERROR"; the summary is the first
C6_Witness ==
    /\ Summarised
    /\ test_output = Passed \o <<"\n">> \o <<"E", "R", "R", "O", "R">>
    /\ summary = Passed

----------------------------------------------------------------------------
(* Claims about the temporary directory of run_test_generation, properties of
   SpecRun *)

\* C7: once the call has returned or raised, the temporary directory does
\* not exist and holds no file.
C7_TempDirGone ==
    rpc \in {"returned", "raised"} =>
        /\ ~temp_dir.exists
        /\ DOMAIN temp_dir.files = {}

\* C7 witness: the directory was created, both files were written, the
\* test-runner subprocess raised, and the directory is gone
C7_Witness ==
    /\ rpc = "raised"
    /\ outcome = Raise("OSError", "subprocess.run", JNull)
    /\ cleaned_test_code_body # <<>>
    /\ ~temp_dir.exists
    /\ DOMAIN temp_dir.files = {}

============================================================================
